---- MODULE Spec2Model ----
(***************************************************************************)
(* RolloutStorageVAE (Utils/storage_vae.py): a running buffer with one     *)
(* slot per parallel actor and a fixed-capacity buffer of completed        *)
(* rollouts, filled by insert() and sampled by get_batch().                *)
(*                                                                         *)
(* Tensors are modelled by their contents.  The nine running_* tensors of  *)
(* shape (max_traj_len, num_processes, dim) are one function               *)
(* running[i][t] of step records whose fields carry the tensors' names;    *)
(* the nine tensors of completed rollouts are rollouts[j][t] in the same   *)
(* way.  Indices are 0-based as in the source.  The storage is modelled    *)
(* with a task dimension (task_dim is not None) and with                   *)
(* save_intrinsic_reward set.                                              *)
(***************************************************************************)
EXTENDS Integers, Sequences, FiniteSets, TLC

\* ---------------------------------------------------------------- bounds
MaxProcesses == 2     \* number of parallel actors
MaxTrajLen == 2       \* horizon of the running buffer
MaxBufferSize == 3    \* largest capacity of the buffer of completed rollouts
MaxCalls == 4         \* number of insert() calls explored
DrawScale == 3        \* np.random.uniform(0, 1) is drawn from {0/S, ..., (S-1)/S}
MaxBatch == 2         \* largest batchsize passed to get_batch()

VARIABLES
    \* constructor arguments (immutable after __init__)
    num_processes, max_traj_len, max_buffer_size, vae_buffer_add_thresh,
    \* running buffer
    curr_timestep, running, running_tasks,
    \* buffer of completed rollouts
    rollouts, tasks, trajectory_lens, insert_idx, buffer_len,
    \* control: exception raised by the last call, value returned by it
    raised, ret,
    \* history (not program state): what the caller passed and what was written
    calls, done, episode, completed, written_at, n_admitted, slot_seq, batched_admissions,
    admitted

config == <<num_processes, max_traj_len, max_buffer_size, vae_buffer_add_thresh>>
runningVars == <<curr_timestep, running, running_tasks>>
bufferVars == <<rollouts, tasks, trajectory_lens, insert_idx, buffer_len>>
historyVars == <<calls, done, episode, completed, written_at, n_admitted, slot_seq,
                 batched_admissions, admitted>>
vars == <<config, runningVars, bufferVars, raised, ret, historyVars>>

Actors == 0 .. (num_processes - 1)
Offsets == 0 .. (max_traj_len - 1)
Slots == 0 .. (max_buffer_size - 1)

save_intrinsic_reward == TRUE

\* ------------------------------------------------------------ step records
ZeroStep ==
    [prev_state |-> 0, next_state |-> 0, actions |-> 0, rewards |-> 0, masks |-> 0,
     bad_masks |-> 0, intrinsic_rewards |-> 0, done_task |-> 0, done_episode |-> 0]

\* torch.zeros((max_traj_len, ...)) restricted to one actor or one rollout
ZeroTrajectory == [t \in Offsets |-> ZeroStep]

\* The step records a caller passes.  Every field but the two completion flags
\* is fixed per actor; the flags tell an ordinary step from the last step of an
\* episode inside a task and from the last step of a task.
StepKinds == {"step", "episode_end", "task_end"}

StepInput(kind, i) ==
    [prev_state |-> i + 1, next_state |-> i + 2, actions |-> 1, rewards |-> 1,
     masks |-> IF kind = "task_end" THEN 0 ELSE 1, bad_masks |-> 1,
     intrinsic_rewards |-> 2,
     done_task |-> IF kind = "task_end" THEN 1 ELSE 0,
     done_episode |-> IF kind = "step" THEN 0 ELSE 1]

\* The `task` argument: None, or one descriptor per actor (the same for all).
NoTask == [is_none |-> TRUE, descriptor |-> 0]
Task(descriptor) == [is_none |-> FALSE, descriptor |-> descriptor]

\* The batches a caller passes in one call: an ordinary step without a task, the
\* end of an episode under task 1, the end of a task under task 2.  insert()
\* treats the step fields and the task independently of each other.
Batches ==
    {[kind |-> "step", task |-> NoTask],
     [kind |-> "episode_end", task |-> Task(1)],
     [kind |-> "task_end", task |-> Task(2)]}

\* ------------------------------------------------------- storage as a value
\* The mutable attributes of the storage, gathered so that the statements of
\* insert() compose as functions on this record.
Storage ==
    [curr_timestep |-> curr_timestep, running |-> running, running_tasks |-> running_tasks,
     rollouts |-> rollouts, tasks |-> tasks, trajectory_lens |-> trajectory_lens,
     insert_idx |-> insert_idx, buffer_len |-> buffer_len, raised |-> raised,
     written_at |-> [i \in Actors |-> -1], n_admitted |-> n_admitted,
     slot_seq |-> slot_seq, batched_admissions |-> batched_admissions,
     admitted |-> admitted]

\* ------------------------------------------------------------------ helpers
Max(a, b) == IF a >= b THEN a ELSE b
Min(a, b) == IF a <= b THEN a ELSE b

\* a trajectory of the caller (a sequence of step records) as a zero-padded row
Pad(seq) == [t \in Offsets |-> IF t < Len(seq) THEN seq[t + 1] ELSE ZeroStep]

\* ------------------------------------------------ insert(): running buffer
\* len(np.unique(self.curr_timestep)) == 1
UniqueCursor(s) == Cardinality({s.curr_timestep[i] : i \in Actors}) = 1

\* What the vectorised assignments at row curr_timestep[0] store for one actor.
FastStep(step) ==
    [step EXCEPT !.intrinsic_rewards = IF save_intrinsic_reward THEN @ ELSE 0]

\* What the per-actor assignments store: running_done_episode receives
\* done_task[i].
SlowStep(step) ==
    [step EXCEPT !.intrinsic_rewards = IF save_intrinsic_reward THEN @ ELSE 0,
                 !.done_episode = step.done_task]

\* Indexing a tensor of max_traj_len rows at row t raises IndexError when
\* t >= max_traj_len; the statement that raises is the first of its block, so
\* nothing of the block has been stored.
RowInRange(t) == t < max_traj_len

FastInsert(s, steps, task) ==
    LET t == s.curr_timestep[0] IN
    IF ~RowInRange(t) THEN [s EXCEPT !.raised = "IndexError"]
    ELSE [s EXCEPT
            !.running = [i \in Actors |-> [s.running[i] EXCEPT ![t] = FastStep(steps[i])]],
            !.running_tasks = IF task.is_none THEN @
                              ELSE [i \in Actors |-> task.descriptor],
            !.curr_timestep = [i \in Actors |-> @[i] + 1]]

\* `self.running_tasks[i] is None`: a row of a tensor is never None.
TaskRowIsNone(s, i) == FALSE

SlowInsert(s, i, steps, task) ==
    LET t == s.curr_timestep[i] IN
    IF ~RowInRange(t) THEN [s EXCEPT !.raised = "IndexError"]
    ELSE [s EXCEPT
            !.running[i][t] = SlowStep(steps[i]),
            !.running_tasks[i] = IF TaskRowIsNone(s, i) THEN task.descriptor ELSE @,
            !.curr_timestep[i] = @ + 1]

\* "empty running buffer", whole buffer and one actor
ResetAll(s) ==
    [s EXCEPT !.running = [i \in Actors |-> ZeroTrajectory],
              !.running_tasks = [i \in Actors |-> 0],
              !.curr_timestep = [i \in Actors |-> 0]]

\* ResetActor emptying the whole running buffer
ResetActorAsWhole(s, i) == ResetAll(s)

\* ResetActor rewinding the cursor over the rows it leaves in place
ResetActorCursorOnly(s, i) ==
    [s EXCEPT !.running_tasks[i] = 0,
              !.curr_timestep[i] = 0]

ResetActor(s, i) ==
    [s EXCEPT !.running[i] = ZeroTrajectory,
              !.running_tasks[i] = 0,
              !.curr_timestep[i] = 0]

\* --------------------------------------- insert(): buffer of completed rollouts
\* self.vae_buffer_add_thresh >= np.random.uniform(0, 1), both in units of
\* 1/DrawScale
Admit(draw) == vae_buffer_add_thresh >= draw

\* WrapCheck with the cursor left where it is on overflow
WrapCheckNoRewind(s, n) ==
    IF s.insert_idx + n > max_buffer_size
    THEN [s EXCEPT !.buffer_len = s.insert_idx]
    ELSE [s EXCEPT !.buffer_len = Max(s.buffer_len, s.insert_idx)]

\* WrapCheck with the fill count taken after the block that does not fit
WrapCheckCountingBlock(s, n) ==
    IF s.insert_idx + n > max_buffer_size
    THEN [s EXCEPT !.buffer_len = s.insert_idx + n, !.insert_idx = 0]
    ELSE [s EXCEPT !.buffer_len = Max(s.buffer_len, s.insert_idx)]

\* WrapCheck taking the buffer for full once the cursor wraps
WrapCheckFullOnWrap(s, n) ==
    IF s.insert_idx + n > max_buffer_size
    THEN [s EXCEPT !.buffer_len = max_buffer_size, !.insert_idx = 0]
    ELSE [s EXCEPT !.buffer_len = Max(s.buffer_len, s.insert_idx)]

\* "check where to insert data" for a block of n rollouts
WrapCheck(s, n) ==
    IF s.insert_idx + n > max_buffer_size
    THEN [s EXCEPT !.buffer_len = s.insert_idx, !.insert_idx = 0]
    ELSE [s EXCEPT !.buffer_len = Max(s.buffer_len, s.insert_idx)]

\* the whole running buffer written as one block at insert_idx
BatchedAdmit(s) ==
    LET w == WrapCheck(s, num_processes)
        base == w.insert_idx
        block == base .. (base + num_processes - 1)
    IN [w EXCEPT
          !.rollouts = [j \in Slots |-> IF j \in block THEN s.running[j - base] ELSE @[j]],
          !.tasks = [j \in Slots |-> IF j \in block THEN s.running_tasks[j - base] ELSE @[j]],
          !.trajectory_lens =
              [j \in Slots |-> IF j \in block THEN s.curr_timestep[j - base] ELSE @[j]],
          !.insert_idx = base + num_processes,
          !.written_at = [i \in Actors |-> base + i],
          !.n_admitted = @ + num_processes,
          !.slot_seq = [j \in Slots |-> IF j \in block THEN s.n_admitted + (j - base) + 1
                                        ELSE @[j]],
          !.batched_admissions = @ + 1,
          !.admitted = @ \o [n \in 1 .. num_processes |->
                                [rollout |-> s.running[n - 1], len |-> s.curr_timestep[n - 1]]]]

\* SingularAdmit with the cursor advanced as for a block
SingularAdmitAdvancingByBlock(s, i) ==
    LET w == WrapCheck(s, 1)
        at == w.insert_idx
    IN [w EXCEPT
          !.rollouts[at] = s.running[i],
          !.tasks[at] = s.running_tasks[i],
          !.trajectory_lens[at] = s.curr_timestep[i],
          !.insert_idx = at + num_processes,
          !.written_at[i] = at,
          !.n_admitted = @ + 1,
          !.slot_seq[at] = s.n_admitted + 1,
          !.admitted = Append(@, [rollout |-> s.running[i], len |-> s.curr_timestep[i]])]

\* the running slot of actor i written at insert_idx
SingularAdmit(s, i) ==
    LET w == WrapCheck(s, 1)
        at == w.insert_idx
    IN [w EXCEPT
          !.rollouts[at] = s.running[i],
          !.tasks[at] = s.running_tasks[i],
          !.trajectory_lens[at] = s.curr_timestep[i],
          !.insert_idx = at + 1,
          !.written_at[i] = at,
          !.n_admitted = @ + 1,
          !.slot_seq[at] = s.n_admitted + 1,
          !.admitted = Append(@, [rollout |-> s.running[i], len |-> s.curr_timestep[i]])]

\* LoopBody flushing a done actor whether or not the block was flushed already
LoopBodyFlushingAgain(s, i, steps, task, d, draws, already_inserted, already_reset) ==
    LET a == IF ~already_inserted THEN SlowInsert(s, i, steps, task) ELSE s
        b == IF max_buffer_size > 0 /\ Admit(draws[i]) THEN SingularAdmit(a, i) ELSE a
    IN IF a.raised # "none" THEN a
       ELSE IF d[i] THEN ResetActor(b, i)
       ELSE a

\* ----------------------------------------------------------- insert(): body
\* One iteration of `for i in range(self.num_processes)`.
LoopBody(s, i, steps, task, d, draws, already_inserted, already_reset) ==
    LET a == IF ~already_inserted THEN SlowInsert(s, i, steps, task) ELSE s
        b == IF max_buffer_size > 0 /\ Admit(draws[i]) THEN SingularAdmit(a, i) ELSE a
    IN IF a.raised # "none" THEN a
       ELSE IF ~already_reset /\ d[i] THEN ResetActor(b, i)
       ELSE a

RECURSIVE Loop(_, _, _, _, _, _, _, _)
Loop(s, i, steps, task, d, draws, already_inserted, already_reset) ==
    IF i >= num_processes \/ s.raised # "none" THEN s
    ELSE Loop(LoopBody(s, i, steps, task, d, draws, already_inserted, already_reset),
              i + 1, steps, task, d, draws, already_inserted, already_reset)

\* done.sum() == self.num_processes
AllDone(d) == Cardinality({i \in Actors : d[i]}) = num_processes

\* "check if we can process the entire batch at once": one draw for the block,
\* then the whole running buffer is emptied.
BatchedFlush(s, draw) ==
    ResetAll(IF max_buffer_size > 0 /\ Admit(draw) THEN BatchedAdmit(s) ELSE s)

\* insert(prev_state, ..., done, task, ...) as a function of the storage.
\* draws[i] is the value np.random.uniform returns for actor i's gate; the gate
\* of the block takes draws[0].
InsertBody(s, steps, task, d, draws) ==
    LET already_inserted == UniqueCursor(s)
        s1 == IF already_inserted THEN FastInsert(s, steps, task) ELSE s
        already_reset == AllDone(d)
        s2 == IF already_reset THEN BatchedFlush(s1, draws[0]) ELSE s1
    IN IF s1.raised # "none" THEN s1
       ELSE IF (~already_inserted) \/ (~already_reset)
            THEN Loop(s2, 0, steps, task, d, draws, already_inserted, already_reset)
            ELSE s2

\* ------------------------------------------------------------- get_batch()
\* batchsize = min(self.buffer_len, batchsize)
BatchSize(batchsize) == Min(buffer_len, batchsize)

\* Population as the whole buffer, filled or not
PopulationWholeBuffer == 0 .. (max_buffer_size - 1)

\* range(self.buffer_len)
Population == 0 .. (buffer_len - 1)

\* np.random.choice(population, k, replace=replace): the arrays it can return
Choice(population, k, replace) ==
    {f \in [1 .. k -> population] :
        replace \/ \A m, n \in 1 .. k : m # n => f[m] # f[n]}

\* insert() returns None
NoReturn == [op |-> "none", batchsize |-> 0, replace |-> FALSE,
             rollout_indices |-> <<>>, trajectory_lens |-> <<>>]

\* ----------------------------------------------------------------- actions
\* The caller's side of the contract: an actor's done flag is set no later than
\* the max_traj_len-th step of its episode.
RespectsHorizon(d) == \A i \in Actors : Len(episode[i]) + 1 >= max_traj_len => d[i]

Install(s) ==
    /\ curr_timestep' = s.curr_timestep
    /\ running' = s.running
    /\ running_tasks' = s.running_tasks
    /\ rollouts' = s.rollouts
    /\ tasks' = s.tasks
    /\ trajectory_lens' = s.trajectory_lens
    /\ insert_idx' = s.insert_idx
    /\ buffer_len' = s.buffer_len
    /\ raised' = s.raised
    /\ written_at' = s.written_at
    /\ n_admitted' = s.n_admitted
    /\ slot_seq' = s.slot_seq
    /\ batched_admissions' = s.batched_admissions
    /\ admitted' = s.admitted

Record(steps, d) ==
    /\ calls' = calls + 1
    /\ done' = d
    /\ episode' = [i \in Actors |-> IF d[i] THEN <<>> ELSE Append(episode[i], steps[i])]
    /\ completed' = [i \in Actors |-> IF d[i] THEN Append(episode[i], steps[i]) ELSE <<>>]

\* np.random.uniform(0, 1) in units of 1/DrawScale: the least and the greatest
\* value of [0, 1)
Draws == {0, DrawScale - 1}

\* The draws a call consumes: one for the block when every actor is done, one
\* per done actor otherwise; the others are never drawn (written 0).
DrawInputs(d) ==
    {draws \in [Actors -> Draws] :
        \A i \in Actors : (~d[i] \/ (AllDone(d) /\ i # 0)) => draws[i] = 0}

\* One call insert(...) that returns or raises.  The caller is single-threaded
\* (a batch in hand is consumed first), stops at an exception and passes done
\* flags that respect the horizon.
InsertCall(batch, d, draws) ==
    LET steps == [i \in Actors |-> StepInput(batch.kind, i)] IN
    /\ raised = "none"
    /\ ret.op # "get_batch"
    /\ calls < MaxCalls
    /\ RespectsHorizon(d)
    /\ Install(InsertBody(Storage, steps, batch.task, d, draws))
    /\ Record(steps, d)
    /\ ret' = NoReturn
    /\ UNCHANGED config

InsertFrom(menu) ==
    \E batch \in menu, d \in [Actors -> BOOLEAN] :
        \E draws \in DrawInputs(d) : InsertCall(batch, d, draws)

Insert == InsertFrom(Batches)

\* ready_for_update(): callers sample only when len(self) > 0
ready_for_update == buffer_len > 0

GetBatchCall(batchsize, replace) ==
    /\ raised = "none"
    /\ ret.op # "get_batch"
    /\ ready_for_update
    /\ \E rollout_indices \in Choice(Population, BatchSize(batchsize), replace) :
          ret' = [op |-> "get_batch", batchsize |-> batchsize, replace |-> replace,
                  rollout_indices |-> rollout_indices,
                  trajectory_lens |-> [n \in 1 .. BatchSize(batchsize) |->
                                          trajectory_lens[rollout_indices[n]]]]
    /\ UNCHANGED <<config, runningVars, bufferVars, raised, historyVars>>

GetBatch == \E batchsize \in 1 .. MaxBatch, replace \in BOOLEAN : GetBatchCall(batchsize, replace)

\* ---------------------------------------------------------- specification
\* __init__ for one choice of constructor arguments
Constructed ==
    /\ curr_timestep = [i \in Actors |-> 0]
    /\ running = [i \in Actors |-> ZeroTrajectory]
    /\ running_tasks = [i \in Actors |-> 0]
    /\ rollouts = [j \in Slots |-> ZeroTrajectory]
    /\ tasks = [j \in Slots |-> 0]
    /\ trajectory_lens = [j \in Slots |-> 0]
    /\ insert_idx = 0
    /\ buffer_len = 0
    /\ raised = "none"
    /\ ret = NoReturn
    /\ calls = 0
    /\ done = [i \in Actors |-> FALSE]
    /\ episode = [i \in Actors |-> <<>>]
    /\ completed = [i \in Actors |-> <<>>]
    /\ written_at = [i \in Actors |-> -1]
    /\ n_admitted = 0
    /\ slot_seq = [j \in Slots |-> 0]
    /\ batched_admissions = 0
    /\ admitted = <<>>

Init ==
    /\ num_processes \in 1 .. MaxProcesses
    /\ max_traj_len \in 1 .. MaxTrajLen
    /\ max_buffer_size \in {0} \cup (num_processes .. MaxBufferSize)
    /\ vae_buffer_add_thresh \in {0, 1, DrawScale}
    /\ Constructed

Next == Insert

\* insert() calls alone: get_batch() reads the storage and changes none of it.
Spec == Init /\ [][Next]_vars

\* The caller hands the sampled batch to the VAE update and drops it before it
\* goes on.
Consume ==
    /\ ret.op = "get_batch"
    /\ ret' = NoReturn
    /\ UNCHANGED <<config, runningVars, bufferVars, raised, historyVars>>

\* What get_batch() can sample depends on the done flags and the draws of the
\* calls before it, not on what the steps held: ordinary steps only.
InsertPlain == InsertFrom({[kind |-> "step", task |-> NoTask]})

NextSampling == InsertPlain \/ GetBatch \/ Consume

\* insert() and get_batch() calls in any order
SpecSampling == Init /\ [][NextSampling]_vars

\* The end-to-end scenario: 3 actors, horizon 4, capacity 3, admission
\* probability 1; actor 0 is done at step 2, actors 1 and 2 at step 4.
InitE2E ==
    /\ num_processes = 3
    /\ max_traj_len = 4
    /\ max_buffer_size = 3
    /\ vae_buffer_add_thresh = DrawScale
    /\ Constructed

DoneE2E(step) == [i \in Actors |-> (i = 0 /\ step = 2) \/ (i # 0 /\ step = 4)]

InsertE2E ==
    /\ calls < 4
    /\ \E batch \in Batches : \E draws \in DrawInputs(DoneE2E(calls + 1)) :
          InsertCall(batch, DoneE2E(calls + 1), draws)

GetBatchE2E == GetBatchCall(3, FALSE)

NextE2E == InsertE2E \/ GetBatchE2E \/ Consume

SpecE2E == InitE2E /\ [][NextE2E]_vars

\* ------------------------------------------------------------------ claims
Returned == raised = "none"

\* C1 (lossless flush): whenever a call with done[i] set admits actor i's
\* trajectory, the slot written for actor i holds, in order and in every field,
\* exactly the step records passed for actor i since its last done flag up to
\* and including the one of this call, zero-padded after them, and
\* trajectory_lens of that slot is their number.
C1_LosslessFlush ==
    Returned =>
        \A i \in Actors :
            written_at[i] # -1 =>
                /\ rollouts[written_at[i]] = Pad(completed[i])
                /\ trajectory_lens[written_at[i]] = Len(completed[i])

\* C2 (reset completeness): after a call returns, every actor whose done flag
\* was set in it has cursor 0, an all-zero running slot and a zero task latch.
C2_DoneActorsReset ==
    Returned =>
        \A i \in Actors :
            done[i] => /\ curr_timestep[i] = 0
                       /\ running[i] = ZeroTrajectory
                       /\ running_tasks[i] = 0

\* C3 as stated: with max_buffer_size > 0 and num_processes <= max_buffer_size,
\* between calls 0 <= insert_idx < max_buffer_size.
C3_InsertIdxBelowCapacity ==
    (max_buffer_size > 0 /\ num_processes <= max_buffer_size) =>
        (0 <= insert_idx /\ insert_idx < max_buffer_size)

\* C3 as amended: with max_buffer_size > 0 and num_processes <= max_buffer_size,
\* between calls 0 <= insert_idx <= max_buffer_size (the cursor rests at
\* max_buffer_size after the last slot is written and wraps at the next
\* admission).
C3_InsertIdxWithinCapacity ==
    (max_buffer_size > 0 /\ num_processes <= max_buffer_size) =>
        (0 <= insert_idx /\ insert_idx <= max_buffer_size)

\* C3 witness: the cursor has wrapped and rests at max_buffer_size again.
C3_Witness ==
    /\ max_buffer_size > 0
    /\ n_admitted > max_buffer_size
    /\ insert_idx = max_buffer_size

\* The case of C4: admission probability 1, singular admissions only, and
\* max_buffer_size + k rollouts admitted so far.
SingularAdmissions(k) ==
    /\ Returned
    /\ max_buffer_size > 0
    /\ vae_buffer_add_thresh = DrawScale
    /\ batched_admissions = 0
    /\ n_admitted = max_buffer_size + k

\* The n-th admitted rollout (n = 1, 2, ...) is what slot j holds.
HoldsAdmitted(j, n) ==
    /\ slot_seq[j] = n
    /\ rollouts[j] = admitted[n].rollout
    /\ trajectory_lens[j] = admitted[n].len

\* The max_buffer_size most recent admissions, the k newest at offsets 0..k-1
\* and the older ones at their original offsets.
MostRecentInPlace(k) ==
    \A j \in Slots :
        HoldsAdmitted(j, IF j < k THEN max_buffer_size + j + 1 ELSE j + 1)

\* C4 as stated: after admitting max_buffer_size + k rollouts one at a time
\* (0 <= k < max_buffer_size), insert_idx = k and the buffer holds the most
\* recent max_buffer_size admitted rollouts in place.
C4_WrapCursorIsK ==
    \A k \in 0 .. (max_buffer_size - 1) :
        SingularAdmissions(k) => (insert_idx = k /\ MostRecentInPlace(k))

\* C4 as amended: after admitting max_buffer_size + k rollouts one at a time,
\* insert_idx = k when 1 <= k < max_buffer_size and insert_idx =
\* max_buffer_size when k = 0 (the cursor wraps at the next admission, not
\* after the last slot is written); the buffer holds the most recent
\* max_buffer_size admitted rollouts in place.
C4_WrapCorrect ==
    \A k \in 0 .. (max_buffer_size - 1) :
        SingularAdmissions(k) =>
            /\ insert_idx = (IF k = 0 THEN max_buffer_size ELSE k)
            /\ MostRecentInPlace(k)

\* C4 witness: one rollout more than the capacity has been admitted, one at a
\* time, so slot 0 has been overwritten.
C4_Witness == SingularAdmissions(1) /\ max_buffer_size > 1

\* C5 (end-to-end scenario): after the four calls the buffer holds 3 rollouts
\* of lengths 2, 4, 4 and get_batch(batchsize=3, replace=False) returns all 3
\* of them without repetition.
C5_EndToEnd ==
    (Returned /\ calls = 4) =>
        /\ n_admitted = 3
        /\ trajectory_lens = (0 :> 2 @@ 1 :> 4 @@ 2 :> 4)
        /\ (ret.op = "get_batch" =>
                {ret.rollout_indices[n] : n \in 1 .. Len(ret.rollout_indices)} = 0 .. 2)

\* The running buffer after the per-actor path has stored one batch
\* (the loop with nothing left to flush).
SlowInsertAll(s, steps, task) ==
    Loop(s, 0, steps, task, [i \in Actors |-> FALSE], [i \in Actors |-> 0], FALSE, TRUE)

RunningState(s) == <<s.curr_timestep, s.running, s.running_tasks, s.raised>>

\* C6 (fast-path/slow-path equivalence): from a state in which all actors share
\* one cursor, storing a batch with the vectorised path and storing it actor by
\* actor give the same running buffer (every field of every slot, the task
\* latch, the cursors).
C6_FastSlowEquivalent ==
    (Returned /\ UniqueCursor(Storage)) =>
        \A batch \in Batches :
            LET steps == [i \in Actors |-> StepInput(batch.kind, i)] IN
            RunningState(FastInsert(Storage, steps, batch.task)) =
                RunningState(SlowInsertAll(Storage, steps, batch.task))

\* the number of step records the running slot of actor i holds
StoredSteps(i) == Cardinality({t \in Offsets : running[i][t] # ZeroStep})

\* C7 (cursor correctness): for a caller that sets done no later than the
\* max_traj_len-th step of an episode, curr_timestep[i] is the number of step
\* records stored for actor i since its last reset and is <= max_traj_len, and
\* no insert stores at a time offset >= max_traj_len.
C7_CursorWithinHorizon ==
    /\ raised # "IndexError"
    /\ \A i \in Actors : /\ curr_timestep[i] <= max_traj_len
                         /\ curr_timestep[i] = StoredSteps(i)

\* C8 (sampling domain): every index get_batch samples lies in
\* [0, buffer_len), their number is min(batchsize, buffer_len), and they are
\* pairwise distinct when replace is False.
C8_SamplingDomain ==
    ret.op = "get_batch" =>
        LET idx == ret.rollout_indices IN
        /\ buffer_len > 0
        /\ \A n \in 1 .. Len(idx) : 0 <= idx[n] /\ idx[n] < buffer_len
        /\ Len(idx) = (IF ret.batchsize <= buffer_len THEN ret.batchsize ELSE buffer_len)
        /\ (~ret.replace => Cardinality({idx[n] : n \in 1 .. Len(idx)}) = Len(idx))

\* C8 witness: a batch of two distinct rollouts drawn without replacement from
\* a buffer that has more than two to offer.
C8_Witness ==
    /\ ret.op = "get_batch"
    /\ ~ret.replace
    /\ Len(ret.rollout_indices) = 2
    /\ buffer_len > 2

\* C9 (admission probability 0): no rollout is ever admitted; insert_idx and
\* buffer_len stay 0 and no slot is written.
C9_NothingAdmittedAtZero ==
    vae_buffer_add_thresh = 0 =>
        /\ insert_idx = 0
        /\ buffer_len = 0
        /\ n_admitted = 0
        /\ \A j \in Slots : rollouts[j] = ZeroTrajectory /\ trajectory_lens[j] = 0

\* C10 (admission probability 1): in every call, each actor whose done flag is
\* set has its trajectory written to a slot in that call.
C10_EveryDoneAdmitted ==
    (vae_buffer_add_thresh = DrawScale /\ max_buffer_size > 0) =>
        \A i \in Actors : done[i] => written_at[i] # -1

\* C11 (fill count within capacity): with max_buffer_size > 0 and
\* num_processes <= max_buffer_size, in every reachable state, after any mix of
\* batched and singular admissions and wraps, 0 <= buffer_len <= max_buffer_size.
C11_BufferLenWithinCapacity ==
    (max_buffer_size > 0 /\ num_processes <= max_buffer_size) =>
        (0 <= buffer_len /\ buffer_len <= max_buffer_size)

\* C11 witness: block and single admissions have both happened, the cursor has
\* wrapped and the fill count has reached the capacity.
C11_Witness ==
    /\ max_buffer_size > 0
    /\ batched_admissions > 0
    /\ n_admitted > batched_admissions * num_processes
    /\ n_admitted > max_buffer_size
    /\ buffer_len = max_buffer_size

\* where a block of num_processes rollouts goes: the insert cursor, or 0 when the
\* block does not fit behind it
BlockBase == IF insert_idx + num_processes > max_buffer_size THEN 0 ELSE insert_idx

\* The call has written the running slots of all actors as one block at
\* BlockBase and touched no other slot.
BlockWritten ==
    LET base == BlockBase
        block == base .. (base + num_processes - 1)
    IN /\ n_admitted' = n_admitted + num_processes
       /\ batched_admissions' = batched_admissions + 1
       /\ insert_idx' = base + num_processes
       /\ \A i \in Actors :
             /\ written_at'[i] = base + i
             /\ rollouts'[base + i] = admitted'[n_admitted + i + 1].rollout
             /\ trajectory_lens'[base + i] = admitted'[n_admitted + i + 1].len
       /\ \A j \in Slots \ block :
             /\ rollouts'[j] = rollouts[j]
             /\ tasks'[j] = tasks[j]
             /\ trajectory_lens'[j] = trajectory_lens[j]

\* The call has admitted nothing and left the buffer of completed rollouts as
\* it was.
NothingWritten ==
    /\ UNCHANGED bufferVars
    /\ n_admitted' = n_admitted
    /\ \A i \in Actors : written_at'[i] = -1

\* C12 (block admission is all-or-nothing): a call in which every actor is done
\* either writes the trajectories of all actors as one contiguous block at the
\* (possibly wrapped) insert cursor and advances insert_idx by num_processes, or
\* leaves slots, trajectory_lens, insert_idx and buffer_len unchanged; never a
\* strict subset of the actors is admitted.
C12_BlockAllOrNothing ==
    [][(calls' = calls + 1 /\ AllDone(done')) => (BlockWritten \/ NothingWritten)]_vars

\* C12 witness: a block has been admitted by a call that found the actors at
\* different cursors.
C12_Witness ==
    /\ AllDone(done)
    /\ \A i \in Actors : written_at[i] # -1
    /\ \E i, j \in Actors :
          trajectory_lens[written_at[i]] # trajectory_lens[written_at[j]]

\* the insert cursor has not wrapped yet: it has advanced once per admitted
\* rollout
NotWrapped == insert_idx = n_admitted

\* C13 (fill count until the first wrap): until the insert cursor first wraps,
\* buffer_len is the number of rollouts admitted so far; ready_for_update() is
\* true right after the first admission, and every rollout admitted by a call
\* can be sampled as soon as the call returns.
C13_FillCountIsAdmitted ==
    (Returned /\ NotWrapped) =>
        /\ buffer_len = n_admitted
        /\ (n_admitted > 0 => ready_for_update)
        /\ \A i \in Actors : written_at[i] # -1 => written_at[i] \in Population

\* the task argument of the call that passed this step record for actor i
Supplied(i, step) == (CHOOSE batch \in Batches : StepInput(batch.kind, i) = step).task

\* The first descriptor supplied for actor i in a trajectory (a sequence of the
\* step records passed for it); 0, the value of an unset latch, when none was.
FirstDescriptor(i, trajectory) ==
    LET supplied == {n \in 1 .. Len(trajectory) : ~Supplied(i, trajectory[n]).is_none}
    IN IF supplied = {} THEN 0
       ELSE Supplied(i, trajectory[CHOOSE n \in supplied : \A m \in supplied : n <= m]).descriptor

\* C14 (task latch): once a call has supplied a task descriptor for an actor's
\* current trajectory, running_tasks[i] is the first descriptor supplied and
\* stays so through later calls of the trajectory, on either path and whatever
\* they supply, until the actor is flushed; the task stored with an admitted
\* trajectory is that first descriptor.
C14_TaskLatch ==
    Returned =>
        \A i \in Actors :
            /\ (~done[i] /\ FirstDescriptor(i, episode[i]) # 0) =>
                   running_tasks[i] = FirstDescriptor(i, episode[i])
            /\ (written_at[i] # -1 /\ FirstDescriptor(i, completed[i]) # 0) =>
                   tasks[written_at[i]] = FirstDescriptor(i, completed[i])

\* C15 (running-buffer padding): between calls, for every actor i, every row
\* of its running slot at a time offset >= curr_timestep[i] is zero in every
\* field.
C15_PaddingIsZero ==
    \A i \in Actors : \A t \in Offsets :
        t >= curr_timestep[i] => running[i][t] = ZeroStep

\* C15 witness: an actor has been flushed on its own and reset while another
\* actor holds a trajectory shorter than the horizon.
C15_Witness ==
    \E i, j \in Actors :
        /\ done[i] /\ ~done[j]
        /\ curr_timestep[i] = 0
        /\ curr_timestep[j] > 0 /\ curr_timestep[j] < max_traj_len
        /\ completed[i] # <<>>

\* The call that has just returned drew a value above the threshold for actor
\* i's completed trajectory (or for the block it belongs to): the actor was
\* done and nothing was written for it.
Rejected(i) ==
    /\ calls' = calls + 1
    /\ raised' = "none"
    /\ max_buffer_size > 0
    /\ done'[i]
    /\ written_at'[i] = -1

\* C16 (admission rejection): a call that rejects a completed trajectory (or an
\* all-done block) and admits nothing changes no slot, no trajectory_lens
\* entry, neither insert_idx nor buffer_len; the rejected trajectory is kept
\* nowhere, and the running slot of each rejected actor is reset to zero with
\* cursor 0.
C16_RejectionLeavesNoTrace ==
    [][\A i \in Actors :
          Rejected(i) =>
              /\ (n_admitted' = n_admitted => UNCHANGED bufferVars)
              /\ running'[i] = ZeroTrajectory
              /\ running_tasks'[i] = 0
              /\ curr_timestep'[i] = 0]_vars

\* The storage a call would leave does not depend on the values drawn.
DrawsIrrelevant ==
    \A batch \in Batches, d \in [Actors -> BOOLEAN], draws \in [Actors -> Draws] :
        LET steps == [i \in Actors |-> StepInput(batch.kind, i)] IN
        InsertBody(Storage, steps, batch.task, d, draws) =
            InsertBody(Storage, steps, batch.task, d, [i \in Actors |-> 0])

\* C17 (max_buffer_size == 0): insert_idx and buffer_len stay 0, so
\* ready_for_update() is never true, and no draw affects the state; the running
\* buffer still takes one step per call for every actor, and every actor whose
\* done flag was set is reset when the call returns.
C17_BufferDisabled ==
    max_buffer_size = 0 =>
        /\ insert_idx = 0
        /\ buffer_len = 0
        /\ ~ready_for_update
        /\ n_admitted = 0
        /\ DrawsIrrelevant
        /\ Returned =>
              \A i \in Actors :
                  IF done[i]
                  THEN curr_timestep[i] = 0 /\ running[i] = ZeroTrajectory
                  ELSE curr_timestep[i] = Len(episode[i])

\* Slot j has been written by an admission and holds the rollout that the last
\* admission to write it put there.
WrittenByAdmission(j) ==
    /\ j \in Slots
    /\ slot_seq[j] \in 1 .. n_admitted
    /\ HoldsAdmitted(j, slot_seq[j])

\* C18 (sampling never reaches a never-written slot): in every reachable state
\* every index j with 0 <= j < buffer_len is a slot written by at least one
\* admission, after any mix of batched and singular admissions and any number
\* of wraps, so every index get_batch returns holds an admitted rollout.
C18_SampledSlotsWritten ==
    /\ \A j \in Population : WrittenByAdmission(j)
    /\ ret.op = "get_batch" =>
          \A n \in 1 .. Len(ret.rollout_indices) : WrittenByAdmission(ret.rollout_indices[n])

\* C18 witness: the cursor has wrapped leaving a slot at the end of the buffer
\* that no admission has written, and get_batch has sampled.
C18_Witness ==
    /\ ret.op = "get_batch"
    /\ n_admitted > max_buffer_size
    /\ \E j \in Slots : slot_seq[j] = 0

\* C19 (admitted trajectories have at least one step): for every slot j written
\* by an admission, 1 <= trajectory_lens[j] <= max_traj_len, whatever the
\* cursors and done flags were, also when all actors are done in one call
\* while their cursors differ and some cursor is 0.
C19_AdmittedLengthInRange ==
    \A j \in Slots :
        slot_seq[j] > 0 => (1 <= trajectory_lens[j] /\ trajectory_lens[j] <= max_traj_len)

\* The flush of actor i on the per-actor path (`if done[i]` of one loop
\* iteration, the step of the call stored already) for one value drawn.
FlushActor(s, i, draw) ==
    LoopBody(s, i, [k \in Actors |-> ZeroStep], NoTask, [k \in Actors |-> k = i],
             [k \in Actors |-> draw], TRUE, FALSE)

\* where a single rollout goes: the insert cursor, or 0 when the buffer is full
\* behind it
SingleBase == IF insert_idx + 1 > max_buffer_size THEN 0 ELSE insert_idx

\* C20 (per-actor flush isolation): when the per-actor path flushes actor i
\* (singular admission and reset), the running slot, task latch and cursor of
\* every other actor are as before, the slot at the insert cursor after the
\* wrap check receives actor i's trajectory, its task and its length, and every
\* other slot, task and trajectory_lens entry is as before.
C20_FlushIsolated ==
    (Returned /\ max_buffer_size > 0) =>
        \A i \in Actors : \A draw \in Draws :
            Admit(draw) =>
                LET f == FlushActor(Storage, i, draw) IN
                /\ \A k \in Actors \ {i} :
                      /\ f.running[k] = running[k]
                      /\ f.running_tasks[k] = running_tasks[k]
                      /\ f.curr_timestep[k] = curr_timestep[k]
                /\ f.rollouts[SingleBase] = running[i]
                /\ f.tasks[SingleBase] = running_tasks[i]
                /\ f.trajectory_lens[SingleBase] = curr_timestep[i]
                /\ \A j \in Slots \ {SingleBase} :
                      /\ f.rollouts[j] = rollouts[j]
                      /\ f.tasks[j] = tasks[j]
                      /\ f.trajectory_lens[j] = trajectory_lens[j]

\* C20 witness: a call has flushed one actor on its own into slot 0 after a
\* wrap while another actor was in the middle of a trajectory, which it still
\* holds.
C20_Witness ==
    \E i, k \in Actors :
        /\ done[i] /\ ~done[k]
        /\ written_at[i] = 0
        /\ n_admitted > max_buffer_size
        /\ curr_timestep[k] > 0
        /\ running[k] # ZeroTrajectory

====
